---- MODULE Spec2Model ----
(***************************************************************************)
(* EvoLisa (src/evolisa.py): a hill-climbing search that approximates a    *)
(* target raster with semi-transparent polygons.  The model follows the    *)
(* program statement by statement: __main__ parses argv and calls          *)
(* generate(); generate() reduces the source, initializes the polygon set, *)
(* and runs `while True: ... iterate(...)` inside a bare try/except whose  *)
(* handler renders and saves the current polygon set.                      *)
(*                                                                         *)
(* Arrays are functions with 0-based domains, as in numpy.  numpy and PIL  *)
(* are libraries outside the repository; their operations are modelled by  *)
(* what they compute (slicing truncates, fancy indexing raises IndexError, *)
(* a store into a uint8 array reduces modulo 256, a polygon is filled by   *)
(* the even-odd rule on pixel centres and blended with PIL's DIV255).      *)
(***************************************************************************)
EXTENDS Integers, Sequences, FiniteSets, TLC

VARIABLES
    pc,           \* position of the program
    cause,        \* the exception that ended the run, "none" while there is none
    reported,     \* error_args has been printed (line 173)
    argv,         \* the command line: [parsable, n_shapes, min_points, max_points, internal_res]
    original,     \* the opened source image: [size, grey]
    n_shapes, min_points, max_points, internal_res,   \* names bound by __main__
    internal, width, height,                           \* reduce(original)
    shapes, points, colors, image, score, it,          \* locals of generate()
    new_shapes, new_points, new_colors, new_image, new_score,  \* locals of iterate()
    index, func, change,                               \* locals of changes() and its operators
    saved,        \* the image written to evolisa.png, "none" while there is none
    accepted      \* history: the polygon set of the last accepted state

vars == <<pc, cause, reported, argv, original, n_shapes, min_points, max_points,
          internal_res, internal, width, height, shapes, points, colors, image,
          score, it, new_shapes, new_points, new_colors, new_image, new_score,
          index, func, change, saved, accepted>>

config  == <<argv, original, n_shapes, min_points, max_points, internal_res,
             internal, width, height>>
current == <<shapes, points, colors, image, score>>
locals  == <<new_shapes, new_points, new_colors, new_image, new_score,
             index, func, change>>

----------------------------------------------------------------------------
(* Bound of the model *)

MaxIt == 2      \* iterations of the search loop that are explored

(* Program constants *)
color_rng == 100
alpha_rng == 100

(* The command lines and source images that are explored *)
ShapeCounts == {1, 2}
SideCounts  == {3, 4}
SourceSides == {2}
SourceGreys == {128}

(* The values the random number generator is allowed to return *)
Seeds       == {0}
InitColors  == {<<255, 255, 255, 255>>}
Shifts(rng) == {<<rng, rng>>, <<-rng, 0>>, <<0, -rng>>}
Tints(rng)  == {<<rng, rng, rng>>, <<-rng, -rng, 0>>}
Steps(rng)  == {<<-rng>>, <<rng>>}

None == "none"

Min(a, b) == IF a < b THEN a ELSE b
Max(a, b) == IF a > b THEN a ELSE b
Abs(a)    == IF a < 0 THEN -a ELSE a

RECURSIVE SumRange(_, _, _)
(* f[lo] + ... + f[hi] *)
SumRange(f, lo, hi) ==
    IF lo > hi THEN 0
    ELSE IF lo = hi THEN f[lo]
    ELSE LET mid == (lo + hi) \div 2
         IN  SumRange(f, lo, mid) + SumRange(f, mid + 1, hi)

(* f[0] + ... + f[n-1] *)
SumTo(f, n) == SumRange(f, 0, n - 1)

----------------------------------------------------------------------------
(* numpy *)

clip(v, lo, hi) == Min(Max(v, lo), hi)

(* A store into an array of dtype uint8 keeps the low eight bits. *)
uint8(v) == v % 256

(* ndarray.copy(): a new array with the same contents.  An array handed    *)
(* around is a record [val, same]: its contents, and whether it is still   *)
(* the very object the caller passed in, so that a store into it is seen   *)
(* by the caller too.                                                      *)
(* copy left out: the operator works on the caller's array *)
copy_alias(a) == a

copy(a) == [val |-> a.val, same |-> FALSE]

ref(v) == [val |-> v, same |-> TRUE]

(* np.random.permutation(n): a permutation of 0..n-1, as a tuple.  The     *)
(* model draws the n rotations and the exchange of the first two.          *)
permutation(n) ==
    {[i \in 1..n |-> (i - 1 + k) % n] : k \in 0..(n - 1)}
    \cup (IF n < 2 THEN {} ELSE {[i \in 1..n |-> IF i = 1 THEN 1 ELSE IF i = 2 THEN 0 ELSE i - 1]})

----------------------------------------------------------------------------
(* PIL *)

White == <<255, 255, 255>>

(* Image.new('RGB', (w, h), white), as np.array gives it: h rows of w pixels *)
new(w, h) == [y \in 0..(h - 1) |-> [x \in 0..(w - 1) |-> White]]

DIV255(a) == LET tmp == a + 128 IN ((tmp \div 256) + tmp) \div 256

BLEND(mask, in1, in2) == DIV255(in1 * (255 - mask) + in2 * mask)

(* The ray from the centre of pixel (px, py) towards +x crosses edge a-b.  *)
(* Everything is doubled so that the centre has integer coordinates.       *)
Crosses(px, py, a, b) ==
    LET Px == 2 * px + 1
        Py == 2 * py + 1
        ax == 2 * a[1]
        ay == 2 * a[2]
        bx == 2 * b[1]
        by == 2 * b[2]
    IN  /\ (ay > Py) # (by > Py)
        /\ IF by > ay
             THEN (Px - ax) * (by - ay) < (Py - ay) * (bx - ax)
             ELSE (Px - ax) * (by - ay) > (Py - ay) * (bx - ax)

(* drawer.polygon(xy, fill): xy is a flat list x0, y0, x1, y1, ... *)
Covered(px, py, xy, len) ==
    LET n == len \div 2
        v(k) == <<xy[2 * k], xy[2 * k + 1]>>
    IN  Cardinality({k \in 0..(n - 1) : Crosses(px, py, v(k), v((k + 1) % n))}) % 2 = 1

polygon(im, w, h, xy, len, fill) ==
    [y \in 0..(h - 1) |-> [x \in 0..(w - 1) |->
        IF Covered(x, y, xy, len)
          THEN [c \in 1..3 |-> BLEND(fill[3], im[y][x][c], fill[c - 1])]
          ELSE im[y][x]]]

(* image.thumbnail((w, h)) of a canvas scale times as large: each pixel is *)
(* the mean of its scale x scale block.                                    *)
thumbnail(im, w, h, scale) ==
    [y \in 0..(h - 1) |-> [x \in 0..(w - 1) |-> [c \in 1..3 |->
        LET block == [k \in 0..(scale * scale - 1) |->
                         im[y * scale + (k \div scale)][x * scale + (k % scale)][c]]
        IN  (SumTo(block, scale * scale) + (scale * scale) \div 2) \div (scale * scale)]]]

----------------------------------------------------------------------------
(* src/evolisa.py, module level *)

(* resizer: factor = max(original.size) / internal_size.  The model's      *)
(* sources are square with a side that internal_size divides, so the       *)
(* quotient is an integer.                                                 *)
factor == Max(original.size[1], original.size[2]) \div internal_res

(* reduce: the thumbnail of a source of one colour is that colour at the   *)
(* reduced size.  Returns <<pixels, width, height>>.                       *)
reduce(im) ==
    LET w == im.size[1] \div factor
        h == im.size[2] \div factor
    IN  <<[y \in 0..(h - 1) |-> [x \in 0..(w - 1) |-> <<im.grey, im.grey, im.grey>>]], w, h>>

(* initialize: randint fills the coordinates and the colours; seed and     *)
(* color are what the generator returned.                                  *)
initialize(n, minp, maxp, w, h, seed, color) ==
    LET sh == [i \in 0..(n - 1) |-> [j \in 0..(2 * maxp - 1) |->
                  IF j % 2 = 0
                    THEN (seed + i + 3 * (j \div 2)) % w
                    ELSE (seed + i + 3 * (j \div 4)) % h]]
        pt == [i \in 0..(n - 1) |-> minp]
        co == [i \in 0..(n - 1) |-> [c \in 0..3 |-> color[c + 1]]]
    IN  <<sh, pt, co>>

RECURSIVE zip(_, _, _, _, _, _, _, _, _)
(* the loop of draw_image over polygons i .. n-1.  (CHOOSE over a one-     *)
(* element set only makes TLC compute the canvas once.)                    *)
zip(im, w, h, scale, sh, pt, co, i, n) ==
    IF i >= n THEN im
    ELSE LET len == clip(pt[i] * 2, 0, Cardinality(DOMAIN sh[i]))   \* shape[:point * 2]
             xy  == [j \in 0..(len - 1) |-> sh[i][j] * scale]
         IN  CHOOSE r \in {zip(p, w, h, scale, sh, pt, co, i + 1, n) :
                            p \in {polygon(im, w, h, xy, len, co[i])}} : TRUE

draw_image(w, h, sh, pt, co, antialiasing) ==
    LET scale == IF antialiasing THEN 4 ELSE 1
        drawn == zip(new(w * scale, h * scale), w * scale, h * scale, scale,
                     sh, pt, co, 0, Cardinality(DOMAIN sh))
    IN  IF antialiasing
          THEN CHOOSE t \in {thumbnail(d, w, h, scale) : d \in {drawn}} : TRUE
          ELSE drawn

(* restore: shapes * factor, drawn at the original size with antialiasing *)
restore(sh, pt, co) ==
    draw_image(original.size[1], original.size[2],
               [i \in DOMAIN sh |-> [j \in DOMAIN sh[i] |-> sh[i][j] * factor]],
               pt, co, TRUE)

error_abs(a, b) ==
    LET h == Cardinality(DOMAIN a)
        w == IF h = 0 THEN 0 ELSE Cardinality(DOMAIN a[0])
        d == [k \in 0..(w * h * 3 - 1) |->
                 Abs(a[k \div (3 * w)][(k \div 3) % w][(k % 3) + 1]
                     - b[k \div (3 * w)][(k \div 3) % w][(k % 3) + 1])]
    IN  SumTo(d, w * h * 3)

----------------------------------------------------------------------------
(* generate.changes: the six operators.  shapes, points and colors are     *)
(* array records (see copy); an operator returns [exc, shapes, points,     *)
(* colors], exc naming the exception it raised, if any.  The last          *)
(* parameter is what the random number generator returned inside it.       *)

point_rng == Max(width \div 2, height \div 2)
shape_rng == Max(width \div 2, height \div 2)

(* np.tile([width, height], max_points) *)
boundaries == [j \in 0..(2 * max_points - 1) |-> IF j % 2 = 0 THEN width ELSE height]

return(sh, pt, co) == [exc |-> None, shapes |-> sh, points |-> pt, colors |-> co]

raise(e, sh, pt, co) == [exc |-> e, shapes |-> sh, points |-> pt, colors |-> co]

(* change = <<dx, dy, choice(max_points)>> *)
point(sh, pt, co, idx, chg) ==
    LET sh1 == copy(sh)
        p   == chg[3] * 2
        row == sh1.val[idx]
        new_row == [row EXCEPT ![p]     = clip(row[p] + chg[1], 0, width),
                               ![p + 1] = clip(row[p + 1] + chg[2], 0, height)]
    IN  return([sh1 EXCEPT !.val[idx] = new_row], pt, co)

(* change = <<dx, dy>>, tiled max_points times *)
shape(sh, pt, co, idx, chg) ==
    LET sh1 == copy(sh)
        row == sh1.val[idx]
        new_row == [j \in DOMAIN row |-> clip(row[j] + chg[(j % 2) + 1], 0, boundaries[j])]
    IN  return([sh1 EXCEPT !.val[idx] = new_row], pt, co)

(* change = np.random.permutation(points[index]).  The slice                *)
(* shapes[index][0:points*2:2] holds at most max_points numbers; indexing   *)
(* it with a permutation of more raises IndexError.                         *)
order(sh, pt, co, idx, chg) ==
    LET sh1 == copy(sh)
        row == sh1.val[idx]
        n   == pt.val[idx]
        len == Cardinality({j \in DOMAIN row : j < n * 2 /\ j % 2 = 0})
        new_row == [j \in DOMAIN row |->
                       IF j < n * 2 THEN row[2 * chg[(j \div 2) + 1] + (j % 2)] ELSE row[j]]
    IN  IF \E k \in 1..Len(chg) : chg[k] >= len
          THEN raise("IndexError", sh1, pt, co)
          ELSE return([sh1 EXCEPT !.val[idx] = new_row], pt, co)

(* number without the forced direction at the lower boundary *)
number_unforced(sh, pt, co, idx, chg) ==
    LET n == pt.val[idx]
        d == IF n = max_points THEN -1 ELSE IF n = min_points THEN -1 ELSE chg[1]
    IN  return(sh, [val |-> [pt.val EXCEPT ![idx] = n + d], same |-> FALSE], co)

(* change = <<np.random.choice([1, -1])>>, read in the last branch only *)
number(sh, pt, co, idx, chg) ==
    LET pt1 == copy(pt)
        n   == pt1.val[idx]
    IN  IF n = min_points
          THEN return(sh, [pt1 EXCEPT !.val[idx] = n + 1], co)
          ELSE IF n = max_points
            THEN return(sh, [pt1 EXCEPT !.val[idx] = n - 1], co)
            ELSE return(sh, [pt1 EXCEPT !.val[idx] = n + chg[1]], co)

(* change = <<dr, dg, db>>.  The sum of the uint8 row and the int64        *)
(* offsets is an int64 array; the store back into colors is to uint8.      *)
color(sh, pt, co, idx, chg) ==
    LET co1 == copy(co)
        c   == co1.val[idx]
        new_c == [k \in DOMAIN c |->
                     IF k < 3 THEN uint8(clip(c[k] + chg[k + 1], 0, 256)) ELSE c[k]]
    IN  return(sh, pt, [co1 EXCEPT !.val[idx] = new_c])

(* change = <<da>>.  The sum of the uint8 scalar and the drawn int is      *)
(* taken in a wider integer type, as numpy's value-based promotion does.   *)
alpha(sh, pt, co, idx, chg) ==
    LET co1 == copy(co)
        c   == co1.val[idx]
    IN  return(sh, pt, [co1 EXCEPT !.val[idx] = [c EXCEPT ![3] = uint8(clip(c[3] + chg[1], 0, 256))]])

Funcs == {"point", "shape", "order", "number", "color", "alpha"}

(* What the generator can return inside operator f applied to polygon idx *)
Draws(f, idx) ==
    CASE f = "point"  -> {<<d[1], d[2], k>> : d \in Shifts(point_rng), k \in 0..(max_points - 1)}
      [] f = "shape"  -> Shifts(shape_rng)
      [] f = "order"  -> permutation(points[idx])
      [] f = "number" -> IF points[idx] \in {min_points, max_points}
                           THEN {<<>>} ELSE {<<1>>, <<-1>>}
      [] f = "color"  -> Tints(color_rng)
      [] f = "alpha"  -> Steps(alpha_rng)

(* func(shapes, points, colors, index) *)
changes(sh, pt, co, idx, f, chg) ==
    CASE f = "point"  -> point(sh, pt, co, idx, chg)
      [] f = "shape"  -> shape(sh, pt, co, idx, chg)
      [] f = "order"  -> order(sh, pt, co, idx, chg)
      [] f = "number" -> number(sh, pt, co, idx, chg)
      [] f = "color"  -> color(sh, pt, co, idx, chg)
      [] f = "alpha"  -> alpha(sh, pt, co, idx, chg)

(* iterate with the comparison turned around *)
iterate_worse(cur, cand) == IF cand[5] >= cur[5] THEN cand ELSE cur

(* iterate that turns ties down *)
iterate_strict(cur, cand) == IF cand[5] < cur[5] THEN cand ELSE cur

(* iterate that keeps every candidate *)
iterate_always(cur, cand) == cand

(* generate.iterate, lines 127-129: the better of the two *)
iterate(cur, cand) == IF cand[5] <= cur[5] THEN cand ELSE cur

----------------------------------------------------------------------------
(* The program *)

Empty == <<>>

NoLocals ==
    /\ new_shapes' = Empty /\ new_points' = Empty /\ new_colors' = Empty
    /\ new_image' = Empty /\ new_score' = 0
    /\ index' = 0 /\ func' = None /\ change' = Empty

(* Command lines: in range; in range but for one parameter; unparsable *)
InRange ==
    {a \in [parsable : {TRUE}, n_shapes : ShapeCounts, min_points : SideCounts,
            max_points : SideCounts, internal_res : SourceSides] :
        a.max_points >= a.min_points}

OutOfRange ==
    LET base == {a \in InRange : a.n_shapes = 1}
    IN  {[a EXCEPT !.n_shapes = n] : a \in base, n \in {-1, 0}}
        \cup {[a EXCEPT !.min_points = 2] : a \in base}
        \cup {[a EXCEPT !.max_points = a.min_points - 1] : a \in base}
        \cup {[a EXCEPT !.internal_res = 0] : a \in base}

Unparsable ==
    {[parsable |-> FALSE, n_shapes |-> 0, min_points |-> 0, max_points |-> 0,
      internal_res |-> 0]}

Argvs == InRange \cup OutOfRange \cup Unparsable

Init ==
    /\ pc = "main"
    /\ cause = None
    /\ reported = FALSE
    /\ argv \in Argvs
    /\ original \in [size : {<<s, s>> : s \in SourceSides}, grey : SourceGreys]
    /\ n_shapes = 0 /\ min_points = 0 /\ max_points = 0 /\ internal_res = 0
    /\ internal = Empty /\ width = 0 /\ height = 0
    /\ shapes = Empty /\ points = Empty /\ colors = Empty /\ image = Empty
    /\ score = 0 /\ it = 0
    /\ new_shapes = Empty /\ new_points = Empty /\ new_colors = Empty
    /\ new_image = Empty /\ new_score = 0
    /\ index = 0 /\ func = None /\ change = Empty
    /\ saved = Empty
    /\ accepted = Empty

(* __main__, lines 167-175.  int() of an unparsable argument raises; the    *)
(* handler prints error_args and falls through to the call of generate,     *)
(* whose arguments are then unbound names: NameError, uncaught.             *)
Main ==
    /\ pc = "main"
    /\ IF argv.parsable
         THEN /\ n_shapes' = argv.n_shapes
              /\ min_points' = argv.min_points
              /\ max_points' = argv.max_points
              /\ internal_res' = argv.internal_res
              /\ pc' = "generate"
              /\ UNCHANGED <<cause, reported>>
         ELSE /\ reported' = TRUE
              /\ cause' = "NameError"
              /\ pc' = "crashed"
              /\ UNCHANGED <<n_shapes, min_points, max_points, internal_res>>
    /\ UNCHANGED <<argv, original, internal, width, height, current, it, locals,
                   saved, accepted>>

(* generate, lines 131-144: up to the try statement.  resizer divides by    *)
(* internal_size; np.empty refuses a negative dimension.                    *)
Setup ==
    /\ pc = "generate"
    /\ IF internal_res = 0
         THEN /\ cause' = "ZeroDivisionError"
              /\ pc' = "crashed"
              /\ UNCHANGED <<internal, width, height, current, accepted>>
         ELSE LET r == reduce(original) IN
              /\ internal' = r[1]
              /\ width' = r[2]
              /\ height' = r[3]
              /\ IF n_shapes < 0
                   THEN /\ cause' = "ValueError"
                        /\ pc' = "crashed"
                        /\ UNCHANGED <<current, accepted>>
                   ELSE \E seed \in Seeds, c \in InitColors :
                        LET s == initialize(n_shapes, min_points, max_points,
                                            r[2], r[3], seed, c)
                            im == draw_image(r[2], r[3], s[1], s[2], s[3], FALSE)
                        IN  /\ shapes' = s[1]
                            /\ points' = s[2]
                            /\ colors' = s[3]
                            /\ image' = im
                            /\ score' = error_abs(r[1], im)
                            /\ accepted' = s
                            /\ pc' = "changes"
                            /\ UNCHANGED cause
    /\ UNCHANGED <<reported, argv, original, n_shapes, min_points, max_points,
                   internal_res, it, locals, saved>>

(* Lines 148-152 and 123: the loop head and the call of changes.  The       *)
(* progress line changes no state.  randint(n_shapes) raises ValueError     *)
(* when n_shapes is 0.  A store into an array that is still the caller's    *)
(* is a store into the current state.                                       *)
Changes ==
    /\ pc = "changes"
    /\ it < MaxIt
    /\ IF n_shapes <= 0
         THEN /\ cause' = "ValueError"
              /\ pc' = "except"
              /\ NoLocals
              /\ UNCHANGED <<shapes, points, colors>>
         ELSE \E idx \in 0..(n_shapes - 1), f \in Funcs :
              \E chg \in Draws(f, idx) :
              LET r == changes(ref(shapes), ref(points), ref(colors), idx, f, chg) IN
              /\ shapes' = IF r.shapes.same THEN r.shapes.val ELSE shapes
              /\ points' = IF r.points.same THEN r.points.val ELSE points
              /\ colors' = IF r.colors.same THEN r.colors.val ELSE colors
              /\ IF r.exc # None
                   THEN /\ cause' = r.exc
                        /\ pc' = "except"
                        /\ NoLocals
                   ELSE /\ new_shapes' = r.shapes.val
                        /\ new_points' = r.points.val
                        /\ new_colors' = r.colors.val
                        /\ index' = idx /\ func' = f /\ change' = chg
                        /\ pc' = "draw"
                        /\ UNCHANGED <<cause, new_image, new_score>>
    /\ UNCHANGED <<reported, config, image, score, it, saved, accepted>>

(* Line 124 *)
Draw ==
    /\ pc = "draw"
    /\ new_image' = draw_image(width, height, new_shapes, new_points, new_colors, FALSE)
    /\ pc' = "score"
    /\ UNCHANGED <<cause, reported, config, current, it, new_shapes, new_points,
                   new_colors, new_score, index, func, change, saved, accepted>>

(* Line 125 *)
Score ==
    /\ pc = "score"
    /\ new_score' = error_abs(internal, new_image)
    /\ pc' = "return"
    /\ UNCHANGED <<cause, reported, config, current, it, new_shapes, new_points,
                   new_colors, new_image, index, func, change, saved, accepted>>

(* Lines 127-129, the assignment of line 152 and line 153 *)
Return ==
    /\ pc = "return"
    /\ LET r == iterate(<<shapes, points, colors, image, score>>,
                        <<new_shapes, new_points, new_colors, new_image, new_score>>)
       IN  /\ shapes' = r[1]
           /\ points' = r[2]
           /\ colors' = r[3]
           /\ image' = r[4]
           /\ score' = r[5]
    /\ accepted' = IF new_score <= score
                     THEN <<new_shapes, new_points, new_colors>> ELSE accepted
    /\ it' = it + 1
    /\ NoLocals
    /\ pc' = "changes"
    /\ UNCHANGED <<cause, reported, config, saved>>

LoopPcs == {"changes", "draw", "score", "return"}

(* The interrupt signal: KeyboardInterrupt is raised at the statement the   *)
(* loop has reached; the frames of iterate and changes are gone.  The five  *)
(* names of line 152 are stored by consecutive STORE_FAST instructions, and *)
(* the interpreter raises no signal between them.                           *)
Interrupt ==
    /\ pc \in LoopPcs
    /\ cause' = "KeyboardInterrupt"
    /\ pc' = "except"
    /\ NoLocals
    /\ UNCHANGED <<reported, config, current, it, saved, accepted>>

(* Lines 154-156: the bare except *)
Except ==
    /\ pc = "except"
    /\ saved' = restore(shapes, points, colors)
    /\ pc' = "Terminated"
    /\ UNCHANGED <<cause, reported, config, current, it, locals, accepted>>

Next == Main \/ Setup \/ Changes \/ Draw \/ Score \/ Return \/ Interrupt \/ Except

Spec == Init /\ [][Next]_vars

(* The scenario of one white triangle on an all-white 10 x 10 target *)
WhiteArgv ==
    [parsable |-> TRUE, n_shapes |-> 1, min_points |-> 3, max_points |-> 3,
     internal_res |-> 10]

WhiteInit ==
    /\ pc = "main"
    /\ cause = None
    /\ reported = FALSE
    /\ argv = WhiteArgv
    /\ original = [size |-> <<10, 10>>, grey |-> 255]
    /\ n_shapes = 0 /\ min_points = 0 /\ max_points = 0 /\ internal_res = 0
    /\ internal = Empty /\ width = 0 /\ height = 0
    /\ shapes = Empty /\ points = Empty /\ colors = Empty /\ image = Empty
    /\ score = 0 /\ it = 0
    /\ new_shapes = Empty /\ new_points = Empty /\ new_colors = Empty
    /\ new_image = Empty /\ new_score = 0
    /\ index = 0 /\ func = None /\ change = Empty
    /\ saved = Empty
    /\ accepted = Empty

WhiteSpec == WhiteInit /\ [][Next]_vars

----------------------------------------------------------------------------
(* Properties *)

(* The command line is parsable and every parameter is in its range *)
ValidConfig ==
    /\ argv.parsable
    /\ argv.n_shapes >= 1
    /\ argv.min_points >= 3
    /\ argv.max_points >= argv.min_points
    /\ argv.internal_res >= 1

Searching == pc \in LoopPcs \cup {"except", "Terminated"}

Written == DOMAIN saved # {}

polygons == <<shapes, points, colors>>

candidate == <<new_shapes, new_points, new_colors, new_image, new_score>>

(* The step is the application of operator f by changes *)
Applies(f) == pc = "changes" /\ pc' = "draw" /\ func' = f

(* C1: while the search runs, no step increases the accepted score. *)
ScoreNeverIncreases == [][(pc \in LoopPcs) => (score' <= score)]_vars

(* a second iteration is about to accept a strictly better candidate *)
ScoreDecreases == pc = "return" /\ it >= 1 /\ new_score < score

(* C2: producing, drawing and scoring a candidate leaves the current       *)
(* state (polygon set, raster, score) as it was; the return step replaces  *)
(* it by the whole candidate when the candidate's score is not greater,    *)
(* and leaves it as it was otherwise.                                      *)
AcceptanceRule ==
    [][/\ pc \in {"changes", "draw", "score"} => current' = current
       /\ pc = "return" /\ pc' = "changes" =>
              current' = IF new_score <= score THEN candidate ELSE current]_vars

(* a candidate that differs from the current polygon set is about to be rejected *)
CandidateRejected ==
    pc = "return" /\ new_score > score
    /\ <<new_shapes, new_points, new_colors>> # polygons

(* C3: under a valid configuration every side count of the accepted state  *)
(* lies within min_points..max_points.                                     *)
SidesWithinRange ==
    ValidConfig /\ Searching =>
        \A i \in DOMAIN points : points[i] >= min_points /\ points[i] <= max_points

ColorClamp ==
    [][/\ Applies("color") /\ ValidConfig =>
              \A k \in 0..2 : new_colors'[index'][k]
                              = Min(255, Max(0, colors[index'][k] + change'[k + 1]))
       /\ Applies("alpha") /\ ValidConfig =>
              new_colors'[index'][3] = Min(255, Max(0, colors[index'][3] + change'[1]))]_vars

(* C6: under a valid configuration the point operator changes nothing but one active pair of the       *)
(* target polygon, and the pair stays on the canvas.                       *)
PointChangesActivePair ==
    [][Applies("point") /\ ValidConfig =>
          \A i \in DOMAIN shapes : \A j \in DOMAIN shapes[i] :
              /\ new_shapes'[i][j] # shapes[i][j] =>
                     i = index' /\ j \div 2 = change'[3] /\ j \div 2 < points[i]
              /\ new_shapes'[i][j] >= 0
              /\ new_shapes'[i][j] <= (IF j % 2 = 0 THEN width ELSE height)]_vars

(* The scenario of C7 *)
WhiteScenario ==
    /\ argv = WhiteArgv
    /\ original = [size |-> <<10, 10>>, grey |-> 255]
    /\ pc \in LoopPcs \cup {"except", "Terminated"}

WhiteStart == initialize(1, 3, 3, 10, 10, 0, <<255, 255, 255, 255>>)

(* C7: in the white scenario the score is 0 and the accepted polygon set   *)
(* stays the initial one.                                                  *)
WhiteNeverAccepted == WhiteScenario => score = 0 /\ polygons = WhiteStart

(* C7, amended: in the white scenario the accepted score is 0 and the      *)
(* accepted raster is all white throughout; a candidate of score 0 is      *)
(* accepted and replaces the polygon set.                                  *)
WhiteStaysPerfect ==
    WhiteScenario => /\ score = 0
                     /\ image = new(10, 10)
                     /\ accepted = polygons

(* after an accepted tie, a candidate that is worse is about to be rejected *)
WhiteWorseCandidate ==
    WhiteScenario /\ pc = "return" /\ it >= 1 /\ new_score > 0 /\ polygons # WhiteStart

(* C8: with an invalid configuration the search loop is never entered and  *)
(* no output is written.                                                   *)
InvalidConfigRejected == ~ValidConfig => ~Searching /\ ~Written

(* C9: under a valid configuration the loop is left by the interrupt only *)
OnlyInterruptTerminates ==
    ValidConfig /\ pc \in {"except", "Terminated"} => cause = "KeyboardInterrupt"

(* C10: once the search loop is interrupted, either the handler is about   *)
(* to run and the polygon set it will render is the last accepted one, or  *)
(* it has run and the output written is the rendering of the last accepted *)
(* polygon set.                                                            *)
InterruptSavesAccepted ==
    cause = "KeyboardInterrupt" =>
        \/ pc = "except" /\ polygons = accepted
        \/ /\ pc = "Terminated"
           /\ Written
           /\ saved = restore(accepted[1], accepted[2], accepted[3])

(* an interrupted run has written an output that shows an accepted polygon *)
InterruptedAfterProgress ==
    /\ pc = "Terminated" /\ cause = "KeyboardInterrupt" /\ it >= 1
    /\ Written
    /\ saved # new(original.size[1], original.size[2])

====
